---- MODULE Spec2Model ----
(***************************************************************************)
(* A model of sync_weather.py: the incremental, backward-paging sync of    *)
(* Tempest weather station observations into the local `weather` table.    *)
(*                                                                         *)
(* Time is the wall clock in seconds.  The clock moves in steps of half a  *)
(* day, so that fetch windows of ONE_DAY_IN_SECONDS can be aligned or      *)
(* misaligned with the observations and with the windows of earlier runs.  *)
(* The Tempest cloud (`remote`) is the environment: at each clock instant  *)
(* the station is online, and each of its devices reports an observation,  *)
(* or it is offline; Tempest may revise, once, an observation of the last  *)
(* day that the tool has downloaded.  A fetch over (start, end) returns    *)
(* the observations of the device with start <= timestamp <= end.  The     *)
(* environment acts between the runs of the tool: a run takes far less     *)
(* than a clock step.                                                      *)
(*                                                                         *)
(* The `weather` table is a bag of rows, so that a row stored twice shows. *)
(*                                                                         *)
(* A row carries the two key columns and two of the data columns, with     *)
(* the values the columns hold once SQLite has applied their types to the  *)
(* text of the CSV; the other 21 columns of COLUMNS behave as the two data *)
(* columns do.                                                             *)
(***************************************************************************)
EXTENDS Integers, Sequences, FiniteSets, Bags

\* ------------------------------------------------------------------ bounds

\* The number of clock steps the environment takes.
MaxTicks == 5

\* The number of times the tool is invoked.
MaxRuns == 2

\* The number of observations Tempest revises.
MaxRevisions == 1

\* ------------------------------------------------------- program constants

ONE_DAY_IN_SECONDS == 24 * 3600

\* The environment's clock step: half a day.
Step == ONE_DAY_IN_SECONDS \div 2

\* The ids given on the command line come from these (--device_id, type=int).
Devices == {10, 20}

\* The command lines: one device, or both in either order.
DeviceLists == {<<10>>, <<10, 20>>, <<20, 10>>}

VARIABLES
    clock,                  \* time.time()
    remote,                 \* the rows the Tempest cloud holds
    revisions,              \* revisions Tempest has made so far
    store,                  \* the rows of the `weather` table
    pc,                     \* where the process is
    runs,                   \* invocations of the tool so far
    device_ids,             \* args.device_id of the current run
    idx,                    \* position of main's for loop in device_ids
    most_recent_timestamp,  \* _sync_device's local
    now_timestamp,          \* _sync_device's end_timestamp: "now"
    range_start,            \* _sync_device_for_range's range_start
    end_timestamp,          \* _sync_device_for_range's end_timestamp
    calls,                  \* the store and API calls of the current run
    last_written,           \* history: per key, the row most recently written
    settled                 \* history: per device, a sync of it completed
                            \*   and its remote rows are as they were then

vars == <<clock, remote, revisions, store, pc, runs, device_ids, idx,
          most_recent_timestamp, now_timestamp, range_start, end_timestamp,
          calls, last_written, settled>>

\* ------------------------------------------------------------------- rows

\* An observation as a device first reports it, and as Tempest revises it.
Reported(d, t) ==
    [device_id |-> d, timestamp |-> t, temperature |-> 20, precip_final |-> 0]

Revised(r) == [r EXCEPT !.temperature = 21, !.precip_final = 1]

\* PRIMARY KEY (device_id, timestamp)
Key(r) == <<r.device_id, r.timestamp>>

RowsOf(d, rows) == {r \in rows : r.device_id = d}

\* The rows of a table with their numbers of copies, for one device.
TableOf(d, table) == [r \in RowsOf(d, BagToSet(table)) |-> table[r]]

Max(S) == CHOOSE x \in S : \A y \in S : y <= x

Min2(a, b) == IF a <= b THEN a ELSE b

Max2(a, b) == IF a >= b THEN a ELSE b

\* A page as a list: the API returns the rows in time order.
RECURSIVE SortedRows(_)
SortedRows(rows) ==
    IF rows = {} THEN <<>>
    ELSE LET last == CHOOSE r \in rows : \A q \in rows : q.timestamp <= r.timestamp
         IN  Append(SortedRows(rows \ {last}), last)

\* ------------------------------------------------------------ local store

\* SELECT MAX(timestamp) FROM weather WHERE device_id = ?; None becomes 0.
MostRecentAnyDevice(device_id, table) ==
    IF BagToSet(table) = {} THEN 0 ELSE Max({r.timestamp : r \in BagToSet(table)})

MostRecentDeviceTimestamp(device_id, table) ==
    LET stamps == {r.timestamp : r \in RowsOf(device_id, BagToSet(table))}
    IN  IF stamps = {} THEN 0 ELSE Max(stamps)

\* REPLACE INTO weather VALUES (...): the row takes the place of the row
\* with its primary key, if there is one.
InsertOrIgnore(table, r) ==
    IF \E q \in BagToSet(table) : Key(q) = Key(r) THEN table
    ELSE table (+) SetToBag({r})

InsertInto(table, r) == table (+) SetToBag({r})

ReplaceInto(table, r) ==
    [q \in {q \in BagToSet(table) : Key(q) # Key(r)} |-> table[q]] (+) SetToBag({r})

\* con.executemany(INSERT_WEATHER_DATA_SQL_TEMPLATE, data_rows), in one
\* transaction: the statement runs once per row, in the order of the list.
RECURSIVE WriteDataForDevice(_, _)
WriteDataForDevice(table, data_rows) ==
    IF data_rows = <<>> THEN table
    ELSE WriteDataForDevice(ReplaceInto(table, Head(data_rows)), Tail(data_rows))

\* ------------------------------------------------------ remote data source

\* The rows the API returns for the device over (start, end).
FetchDeviceDataForRange(device_id, start_timestamp, end) ==
    SortedRows({r \in RowsOf(device_id, remote) :
                    start_timestamp <= r.timestamp /\ r.timestamp <= end})

\* ------------------------------------------------------------ sync driver

\* start_timestamp = min(most_recent_timestamp, end_timestamp - ONE_DAY_IN_SECONDS)
RangeStartNoFloor(most_recent, end) == most_recent

RangeStart(most_recent, end) == Min2(most_recent, end - ONE_DAY_IN_SECONDS)

\* start_timestamp = max(end_timestamp - ONE_DAY_IN_SECONDS, range_start)
ChunkStartUnclamped(end, start) == end - ONE_DAY_IN_SECONDS

ChunkStart(end, start) == Max2(end - ONE_DAY_IN_SECONDS, start)

\* if not data_rows: break
NeverExhausted(data_rows) == FALSE

Exhausted(data_rows) == Len(data_rows) = 0

\* The device main's for loop is at.
DeviceInReverseOrder == device_ids[Len(device_ids) + 1 - idx]

CurrentDevice == device_ids[idx]

\* urlopen raises and nothing catches it: the process ends.
SkipDeviceOnFetchError == "sync"

OnFetchError == "aborted"

\* ------------------------------------------------------------------ state

Init ==
    /\ clock = 0
    /\ remote = {}
    /\ revisions = 0
    /\ store = EmptyBag
    /\ pc = "idle"
    /\ runs = 0
    /\ device_ids = <<>>
    /\ idx = 0
    /\ most_recent_timestamp = 0
    /\ now_timestamp = 0
    /\ range_start = 0
    /\ end_timestamp = 0
    /\ calls = <<>>
    /\ last_written = {}
    /\ settled = [d \in Devices |-> FALSE]

\* The history of a change of the remote rows of the devices in `changed`.
RemoteChanged(changed) ==
    settled' = [d \in Devices |-> settled[d] /\ d \notin changed]

\* ------------------------------------------------------------ environment

\* Half a day passes; the devices in `reporting` report an observation.  A run
\* of the tool takes far less than a clock step: the clock steps between runs.
Tick(reporting) ==
    /\ pc = "idle"
    /\ runs < MaxRuns
    /\ clock < MaxTicks * Step
    /\ clock' = clock + Step
    /\ remote' = remote \cup {Reported(d, clock') : d \in reporting}
    /\ RemoteChanged(reporting)
    /\ UNCHANGED <<revisions, store, pc, runs, device_ids, idx,
                   most_recent_timestamp, now_timestamp, range_start,
                   end_timestamp, calls, last_written>>

\* Tempest revises an observation of the last 24 hours that the tool has
\* downloaded (a revision of a row not yet downloaded shows to no run).
Revise(r) ==
    /\ r \in remote
    /\ r \in BagToSet(store)
    /\ pc = "idle"
    /\ runs < MaxRuns
    /\ revisions < MaxRevisions
    /\ revisions' = revisions + 1
    /\ r = Reported(r.device_id, r.timestamp)
    /\ r.timestamp > clock - ONE_DAY_IN_SECONDS
    /\ remote' = (remote \ {r}) \cup {Revised(r)}
    /\ RemoteChanged({r.device_id})
    /\ UNCHANGED <<clock, store, pc, runs, device_ids, idx, most_recent_timestamp,
                   now_timestamp, range_start, end_timestamp, calls, last_written>>

\* ---------------------------------------------------------------- program

\* main, up to its for loop: the arguments are parsed and the database is
\* opened (CREATE TABLE IF NOT EXISTS leaves the rows as they are).  The tool
\* runs at a time later than one day after the epoch.
Main(ids) ==
    /\ pc = "idle"
    /\ runs < MaxRuns
    /\ clock >= ONE_DAY_IN_SECONDS
    /\ runs' = runs + 1
    /\ device_ids' = ids
    /\ idx' = 1
    /\ pc' = "sync"
    /\ UNCHANGED <<clock, remote, revisions, store, most_recent_timestamp,
                   now_timestamp, range_start, end_timestamp, calls,
                   last_written, settled>>

\* main's for loop has no device left.
MainReturn ==
    /\ pc = "sync"
    /\ idx > Len(device_ids)
    /\ pc' = "done"
    /\ UNCHANGED <<clock, remote, revisions, store, runs, device_ids, idx,
                   most_recent_timestamp, now_timestamp, range_start,
                   end_timestamp, calls, last_written, settled>>

\* _sync_device, up to the while loop of _sync_device_for_range.
SyncDevice ==
    /\ pc = "sync"
    /\ idx <= Len(device_ids)
    /\ LET w == MostRecentDeviceTimestamp(CurrentDevice, store)
       IN  /\ most_recent_timestamp' = w
           /\ now_timestamp' = clock
           /\ range_start' = RangeStart(w, clock)
           /\ end_timestamp' = clock
           /\ calls' = Append(calls, [op |-> "watermark",
                                     device_id |-> CurrentDevice, result |-> w])
    /\ pc' = "loop"
    /\ UNCHANGED <<clock, remote, revisions, store, runs, device_ids, idx, last_written,
                   settled>>

\* _sync_device_for_range returns, and _sync_device: on to the next device.
FinishDevice ==
    /\ idx' = idx + 1
    /\ pc' = "sync"
    /\ most_recent_timestamp' = 0
    /\ now_timestamp' = 0
    /\ range_start' = 0
    /\ end_timestamp' = 0
    /\ settled' = [settled EXCEPT ![CurrentDevice] = TRUE]

\* while range_start < end_timestamp: the condition is false.
LoopExit ==
    /\ pc = "loop"
    /\ ~(range_start < end_timestamp)
    /\ FinishDevice
    /\ UNCHANGED <<clock, remote, revisions, store, runs, device_ids, calls, last_written>>

\* The rows that `data_rows` leave in the table: per key, the last of them.
LastWritten(written, data_rows) ==
    {r \in written : \A i \in 1..Len(data_rows) : Key(data_rows[i]) # Key(r)}
    \cup {data_rows[i] : i \in {j \in 1..Len(data_rows) :
              \A k \in (j + 1)..Len(data_rows) : Key(data_rows[k]) # Key(data_rows[j])}}

\* One turn of the while loop, the fetch returning.
FetchPage ==
    /\ pc = "loop"
    /\ range_start < end_timestamp
    /\ LET start_timestamp == ChunkStart(end_timestamp, range_start)
           data_rows == FetchDeviceDataForRange(CurrentDevice, start_timestamp,
                                                end_timestamp)
           fetch == [op |-> "fetch", device_id |-> CurrentDevice,
                     start |-> start_timestamp, end |-> end_timestamp,
                     result |-> IF Len(data_rows) = 0 THEN "empty" ELSE "rows"]
       IN  IF Exhausted(data_rows)
           THEN /\ calls' = Append(calls, fetch)
                /\ FinishDevice
                /\ UNCHANGED <<store, last_written>>
           ELSE /\ store' = WriteDataForDevice(store, data_rows)
                /\ last_written' = LastWritten(last_written, data_rows)
                /\ calls' = calls \o <<fetch, [op |-> "write",
                       keys |-> {Key(data_rows[i]) : i \in 1..Len(data_rows)},
                       revised |-> {Key(data_rows[i]) : i \in {j \in 1..Len(data_rows) :
                           \E q \in BagToSet(store) :
                               Key(q) = Key(data_rows[j]) /\ q # data_rows[j]}}]>>
                /\ end_timestamp' = start_timestamp
                /\ UNCHANGED <<pc, idx, most_recent_timestamp, now_timestamp,
                               range_start, settled>>
    /\ UNCHANGED <<clock, remote, revisions, runs, device_ids>>

\* One turn of the while loop, the fetch raising (urlopen or decode).
FetchError ==
    /\ pc = "loop"
    /\ range_start < end_timestamp
    /\ calls' = Append(calls, [op |-> "fetch", device_id |-> CurrentDevice,
                  start |-> ChunkStart(end_timestamp, range_start),
                  end |-> end_timestamp, result |-> "error"])
    /\ pc' = OnFetchError
    /\ UNCHANGED <<clock, remote, revisions, store, runs, device_ids, idx,
                   most_recent_timestamp, now_timestamp, range_start,
                   end_timestamp, last_written, settled>>

\* The process ends: after main returns, or with the traceback of the error.
Exit ==
    /\ pc \in {"done", "aborted"}
    /\ pc' = "idle"
    /\ device_ids' = <<>>
    /\ idx' = 0
    /\ calls' = <<>>
    /\ most_recent_timestamp' = 0
    /\ now_timestamp' = 0
    /\ range_start' = 0
    /\ end_timestamp' = 0
    /\ UNCHANGED <<clock, remote, revisions, store, runs, last_written, settled>>

Next ==
    \/ \E reporting \in {{}, Devices} : Tick(reporting)
    \/ \E r \in remote : Revise(r)
    \/ \E ids \in DeviceLists : Main(ids)
    \/ MainReturn
    \/ SyncDevice
    \/ LoopExit
    \/ FetchPage
    \/ FetchError
    \/ Exit

Spec == Init /\ [][Next]_vars

\* ----------------------------------------------------------------- claims

IsFetch(c) == c.op = "fetch"

\* The calls of the device sync in progress: from its watermark read on.
SyncCalls ==
    LET reads == {i \in 1..Len(calls) : calls[i].op = "watermark"}
    IN  IF reads = {} THEN <<>> ELSE SubSeq(calls, Max(reads), Len(calls))

\* The fetches of the device sync in progress.
Fetches == SelectSeq(SyncCalls, IsFetch)

\* C1: the range start is min(watermark, now - one day): it is neither later
\* than the watermark nor later than a day ago, it is one of the two, and the
\* first fetch of every device sync is the window [now - one day, now].
C1_TwentyFourHourFloor ==
    pc \in {"loop", "aborted"} =>
        /\ range_start <= most_recent_timestamp
        /\ range_start <= now_timestamp - 86400
        /\ range_start \in {most_recent_timestamp, now_timestamp - 86400}
        /\ most_recent_timestamp > now_timestamp - 86400
               => range_start = now_timestamp - 86400
        /\ calls[Len(calls)].op = "watermark"
               => calls[Len(calls)].result = most_recent_timestamp
        /\ Fetches # <<>> => /\ Fetches[1].start = now_timestamp - 86400
                             /\ Fetches[1].end = now_timestamp

\* C1's case: the watermark is later than a day ago, and the first fetch has
\* been issued.
C1_Witness ==
    /\ pc = "loop"
    /\ most_recent_timestamp > now_timestamp - 86400
    /\ most_recent_timestamp < now_timestamp
    /\ Len(Fetches) = 1

\* C2: the fetch windows of a device sync are at most one day wide, start at
\* "now", go strictly backward, each ending where the one before started; and
\* when the loop ends with no page empty, there were ceil(S / 86400) of them
\* and the last one starts at the range start.
C2_Chunking ==
    pc = "loop" =>
        /\ \A i \in 1..Len(Fetches) :
               /\ Fetches[i].result = "rows"
               /\ Fetches[i].start < Fetches[i].end
               /\ Fetches[i].end - Fetches[i].start <= 86400
               /\ Fetches[i].end = IF i = 1 THEN now_timestamp
                                   ELSE Fetches[i - 1].start
               /\ Fetches[i].start >= range_start
        /\ ~(range_start < end_timestamp) =>
               /\ Len(Fetches) = (now_timestamp - range_start + 86399) \div 86400
               /\ Len(Fetches) >= 1
               /\ Fetches[Len(Fetches)].start = range_start

\* C2's case: a range of 60 hours has been covered by 3 fetches.
C2_Witness ==
    /\ pc = "loop"
    /\ ~(range_start < end_timestamp)
    /\ now_timestamp - range_start = 60 * 3600
    /\ Len(Fetches) = 3

\* C3: a fetch that returns no rows is the last call of its device's sync: no
\* write follows it, no later call of the run is for that device, and the run
\* goes on with the watermark read of the next device.
C3_EmptyPageEndsPaging ==
    \A i \in 1..Len(calls) :
        (calls[i].op = "fetch" /\ calls[i].result = "empty") =>
            /\ i < Len(calls) => /\ calls[i + 1].op = "watermark"
                                 /\ calls[i + 1].device_id # calls[i].device_id
            /\ \A j \in (i + 1)..Len(calls) :
                   /\ calls[j].op \in {"watermark", "fetch"}
                          => calls[j].device_id # calls[i].device_id
                   /\ calls[j].op = "write"
                          => \A k \in calls[j].keys : k[1] # calls[i].device_id
            /\ i = Len(calls) => pc \in {"sync", "done"}

\* C3's case: after a page that was written, the next page came back empty
\* before the range start was reached, and the run went on with the next
\* device.
C3_Witness ==
    \E i \in 2..Len(calls) :
        /\ calls[i].op = "fetch"
        /\ calls[i].result = "empty"
        /\ calls[i - 1].op = "write"
        /\ \E m \in 1..(i - 1) :
               /\ calls[m].op = "watermark"
               /\ calls[m].device_id = calls[i].device_id
               /\ calls[m].result < calls[i].start
        /\ i < Len(calls)
        /\ calls[i + 1].op = "watermark"

\* C4: once a sync of a device has completed, and for as long as the remote
\* rows of the device stay as they were, no step changes the stored rows of
\* the device or the number of copies of any of them.
C4_Idempotence ==
    [][\A d \in Devices :
           settled[d] => TableOf(d, store') = TableOf(d, store)]_vars

\* C4's case: the sync of a device runs again, the remote rows being as they
\* were, and has written a page.
C4_Witness ==
    /\ pc = "loop"
    /\ settled[CurrentDevice]
    /\ calls[Len(calls)].op = "write"
    /\ calls[Len(calls)].keys # {}

\* C5: the table holds one copy of each row and one row per key, and its
\* rows are, key by key, the rows most recently written.
C5_RevisionAcceptance ==
    /\ \A r \in BagToSet(store) :
           /\ store[r] = 1
           /\ \A q \in BagToSet(store) : Key(q) = Key(r) => q = r
    /\ BagToSet(store) = last_written

\* C5's case: a write has replaced a stored row by a revised row.
C5_Witness ==
    /\ calls # <<>>
    /\ calls[Len(calls)].op = "write"
    /\ calls[Len(calls)].revised # {}
    /\ \E r \in BagToSet(store) :
           /\ Key(r) \in calls[Len(calls)].revised
           /\ r.temperature = 21

\* C6: the watermark of a device is 0 when the table has no row of the
\* device, and otherwise a timestamp of a row of the device that no row of
\* the device exceeds; and it is what the watermark read of a sync returns.
C6_WatermarkCorrectness ==
    /\ \A d \in Devices :
           LET m == MostRecentDeviceTimestamp(d, store)
               rows == {r \in BagToSet(store) : r.device_id = d}
           IN  /\ rows = {} => m = 0
               /\ rows # {} => /\ \E r \in rows : r.timestamp = m
                               /\ \A r \in rows : r.timestamp <= m
    /\ (calls # <<>> /\ calls[Len(calls)].op = "watermark") =>
           LET c == calls[Len(calls)]
           IN  \A r \in BagToSet(store) :
                   r.device_id = c.device_id => r.timestamp <= c.result

\* C6's case: a watermark read of a device with several rows, while the
\* table holds a later row of another device.
C6_Witness ==
    /\ calls # <<>>
    /\ calls[Len(calls)].op = "watermark"
    /\ Cardinality(RowsOf(calls[Len(calls)].device_id, BagToSet(store))) >= 2
    /\ \E r \in BagToSet(store) :
           /\ r.device_id # calls[Len(calls)].device_id
           /\ r.timestamp > calls[Len(calls)].result

\* The device a call is for: that of the latest watermark read up to it.
DeviceOfCall(i) ==
    device_ids[Cardinality({j \in 1..i : calls[j].op = "watermark"})]

\* The calls of a run follow the device list: the k-th watermark read is for
\* the k-th device, every fetch carries the device of the watermark read
\* before it, and every write holds rows of that device only.
C7_DeviceOrder ==
    \A i \in 1..Len(calls) :
        /\ calls[1].op = "watermark"
        /\ calls[i].op \in {"watermark", "fetch"}
               => calls[i].device_id = DeviceOfCall(i)
        /\ calls[i].op = "write"
               => \A k \in calls[i].keys : k[1] = DeviceOfCall(i)

\* C7: the devices are synced one at a time in the order of the list, every
\* watermark read, fetch and write being for the device whose turn it is, and
\* a step changes the stored rows of a device only during the sync of that
\* device.
C7_MultiDeviceIndependence ==
    [][/\ C7_DeviceOrder'
       /\ \A d \in Devices :
              (pc # "loop" \/ device_ids[idx] # d)
                  => TableOf(d, store') = TableOf(d, store)]_vars

\* C7's case: the second device of a list is being synced, and rows of both
\* devices have been written in this run.
C7_Witness ==
    /\ pc = "loop"
    /\ idx = 2
    /\ \E i, j \in 1..Len(calls) :
           /\ i < j
           /\ calls[i].op = "write"
           /\ calls[j].op = "write"
           /\ \E k \in calls[i].keys : k[1] = device_ids[1]
           /\ \E k \in calls[j].keys : k[1] = device_ids[2]

\* The last call of the run is a fetch that raised.
Failed ==
    /\ calls # <<>>
    /\ calls[Len(calls)].op = "fetch"
    /\ calls[Len(calls)].result = "error"

\* C9: the step of a fetch that raises makes that one call and leaves the
\* table as it is; after it, the run makes no call and the table stays as
\* it is, until the process has ended.
C9_FatalFetchFailure ==
    [][/\ (~Failed /\ Failed') =>
              /\ store' = store
              /\ calls' = Append(calls, calls'[Len(calls')])
       /\ Failed =>
              /\ store' = store
              /\ calls' = calls \/ (calls' = <<>> /\ pc' = "idle")]_vars

\* C9's case: a fetch raised after a page was written, with a device of the
\* list still to sync.
C9_Witness ==
    /\ Failed
    /\ pc = "aborted"
    /\ idx < Len(device_ids)
    /\ \E i \in 1..Len(calls) : calls[i].op = "write"

\* C8, as claimed: when a run has completed, every remote row, up to the
\* invocation time, of a device that had no row in the table when its sync
\* began is in the table.
C8_FullHistoryOnFirstRun ==
    pc = "done" =>
        \A i \in 1..Len(calls) :
            (calls[i].op = "watermark" /\ calls[i].result = 0) =>
                \A r \in RowsOf(calls[i].device_id, remote) :
                    r.timestamp <= calls[i + 1].end
                        => \E q \in BagToSet(store) : Key(q) = Key(r)

\* C10, as claimed: between runs, every remote row of a device that is not
\* later than the watermark of the device is in the table.
C10_WatermarkCompleteness ==
    pc = "idle" =>
        \A d \in Devices :
            \A r \in RowsOf(d, remote) :
                r.timestamp <= MostRecentDeviceTimestamp(d, store)
                    => \E q \in BagToSet(store) : Key(q) = Key(r)

====
